---- MODULE Spec2Model ----
(***************************************************************************)
(* A model of the decaf377 core: the square-root-of-ratio primitive, the   *)
(* divstep inversion of the Fp / Fr field wrappers, the R1CS gadget forms  *)
(* of Decaf compression, decompression, allocation, equality and the       *)
(* Elligator map, scalar multiplication of Elements, the lazily            *)
(* initialised constants, the byte and limb encodings of the fields, the   *)
(* mixed operators of Element and AffineElement, the serialisation of      *)
(* ElementVar, and Valid::check.                                           *)
(*                                                                         *)
(* The three fields of the library are replaced by small prime fields with *)
(* the same structure (Scale selects the parameter set):                   *)
(*   Fq : q = 1 mod 4, a = -1, d, a - d and a - 2d non-squares, curve      *)
(*        order 4 * r, r an odd prime, ZETA a non-square;                  *)
(*   Fr : the prime r, the order of the Decaf group over that curve;       *)
(*   Fp : another prime, larger than q.                                    *)
(* Everything else (bit lengths B, limb counts, iteration counts, shift    *)
(* amounts, the order of the field operations) is the code's.              *)
(***************************************************************************)
EXTENDS Integers, Sequences, FiniteSets, TLC

\* Index of the parameter set in use.
Scale == 1

\* q: modulus of Fq; d: Edwards coefficient; zeta: non-square of Fq;
\* r: modulus of Fr (curve order / 4); p: modulus of Fp.
\* As in the real field, q = 1 mod 4, d, a - d and a - 2d are non-squares,
\* and the points with y = -1/2 are on the curve only for Scale 1 and are
\* never even.
FieldParams ==
  << [q |-> 37, d |-> 22, zeta |-> 2, r |-> 11, p |-> 43],
     [q |-> 41, d |-> 6, zeta |-> 3, r |-> 11, p |-> 47],
     [q |-> 53, d |-> 2, zeta |-> 3, r |-> 11, p |-> 59] >>

Params == FieldParams[Scale]

----------------------------------------------------------------------------
(* Option values *)

None == [some |-> FALSE, val |-> 0]

Some(x) == [some |-> TRUE, val |-> x]

----------------------------------------------------------------------------
(* Modular arithmetic helpers *)

RECURSIVE PowMod(_, _, _)
PowMod(b, e, m) ==
  IF e = 0 THEN 1 % m
  ELSE LET h == PowMod(b, e \div 2, m)
           hh == (h * h) % m
       IN IF e % 2 = 1 THEN (hh * (b % m)) % m ELSE hh

InvMod(x, m) == CHOOSE y \in 0 .. m - 1 : (x * y) % m = 1

----------------------------------------------------------------------------
(* Fq: the base field of the curve (canonical representatives) *)

Q == Params.q

Fq == 0 .. Q - 1

FqAdd(x, y) == (x + y) % Q

FqSub(x, y) == (x - y + Q) % Q

FqNeg(x) == (Q - x) % Q

FqMul(x, y) == (x * y) % Q

FqSquare(x) == (x * x) % Q

FqIsZero(x) == x = 0

\* Field::inverse of the field library: no value for zero.
FqInverse(x) == IF x = 0 THEN None ELSE Some(InvMod(x, Q))

\* SquareRootField::sqrt of the field library: no value for a non-residue.
\* Which of the two roots is returned is not specified, so the model keeps
\* both: the set of values sqrt may return (empty: None).
FqSqrt(x) == {y \in Fq : FqSquare(y) = x}

ZETA_square == FqSquare(Params.zeta)

ZETA == Params.zeta

----------------------------------------------------------------------------
(* State *)

VARIABLES
  sq_u, sq_v,      \* arguments of the sqrt_ratio_zeta call
  sq_out,          \* its outcome: [panic, was_square, r]
  sq_pc,           \* "idle" | "call" | "done"
  inv_field,       \* "Fp" | "Fr" | "none": the wrapper whose inverse runs
  inv_self,        \* the argument of inverse (Montgomery form)
  inv_loc,         \* the locals of inverse: [d, f, g, v, r, i]
  inv_rounds,      \* number of divstep rounds executed so far
  inv_result,      \* Option: what inverse returned
  inv_pc,          \* "idle" | "call" | "loop" | "done"
  cs_input,        \* what the circuit was given: [kind, point, s]
  cs_point,        \* Option: value of the current ElementVar
  cs_s,            \* Option: value of the current compressed FqVar
  cs_sat,          \* is every constraint enforced so far satisfied
  cs_ops,          \* the gadget calls made so far, oldest first
  cs_num,          \* [instance, witness, constraints]: what the calls added
  op_name,         \* "none" | "is_eq" | "elligator_map" | "mul" | ...: the call made
  op_args,         \* its arguments: [P, Q, x, k1, k2, form]
  op_out,          \* its outcome
  op_pc,           \* "idle" | "call" | "done" | "diverged"
  op_stack,        \* the impls whose calls have not returned, innermost last
  lz_state,        \* per lazy constant: "uninit" | "running" | "done"
  lz_value,        \* per lazy constant: the value stored in its cell
  lz_inits,        \* per lazy constant: how often its initialiser has run
  th_target,       \* per thread: the constant it is dereferencing, or "none"
  th_stack,        \* per thread: the constants it is initialising, innermost last
  th_seen,         \* per thread: the <<constant, value>> pairs it has read
  th_reads         \* per thread: number of completed reads

sqVars == <<sq_u, sq_v, sq_out, sq_pc>>

invVars == <<inv_field, inv_self, inv_loc, inv_rounds, inv_result, inv_pc>>

csVars == <<cs_input, cs_point, cs_s, cs_sat, cs_ops, cs_num>>

opVars == <<op_name, op_args, op_out, op_pc, op_stack>>

lzVars == <<lz_state, lz_value, lz_inits, th_target, th_stack, th_seen, th_reads>>

vars == <<sqVars, invVars, csVars, opVars, lzVars>>

----------------------------------------------------------------------------
(* Square root of a ratio (invsqrt.rs) *)

Returned(w, y) == [panic |-> FALSE, was_square |-> w, r |-> y]

Panicked == [panic |-> TRUE, was_square |-> FALSE, r |-> 0]

\* A variant that multiplies by v where the code multiplies by 1/v.
sqrt_ratio_zeta_no_inverse(a, b) ==
  IF FqIsZero(a) THEN {Returned(TRUE, a)}
  ELSE IF FqIsZero(b) THEN {Returned(FALSE, b)}
  ELSE LET uv == FqMul(b, a)
       IN IF FqSqrt(uv) # {}
          THEN {Returned(TRUE, y) : y \in FqSqrt(uv)}
          ELSE LET zs == FqSqrt(FqMul(ZETA, uv))
               IN IF zs = {} THEN {Panicked}
                  ELSE {Returned(FALSE, y) : y \in zs}

\* A variant that reports the non-square branch as square.
sqrt_ratio_zeta_wrong_flag(a, b) ==
  IF FqIsZero(a) THEN {Returned(TRUE, a)}
  ELSE IF FqIsZero(b) THEN {Returned(FALSE, b)}
  ELSE LET uv == FqMul(FqInverse(b).val, a)
       IN IF FqSqrt(uv) # {}
          THEN {Returned(TRUE, y) : y \in FqSqrt(uv)}
          ELSE {Returned(TRUE, y) : y \in FqSqrt(FqMul(ZETA, uv))}

\* A variant without the early return for a zero denominator.
sqrt_ratio_zeta_no_v_check(a, b) ==
  IF FqIsZero(a) THEN {Returned(TRUE, a)}
  ELSE LET inv == FqInverse(b)
       IN IF ~inv.some THEN {Panicked}
          ELSE LET uv == FqMul(inv.val, a)
               IN IF FqSqrt(uv) # {}
                  THEN {Returned(TRUE, y) : y \in FqSqrt(uv)}
                  ELSE LET zs == FqSqrt(FqMul(ZETA, uv))
                       IN IF zs = {} THEN {Panicked}
                          ELSE {Returned(FALSE, y) : y \in zs}

\* The set of outcomes of sqrt_ratio_zeta(a, b): one per value sqrt may
\* return; Panicked where an expect() meets None.
sqrt_ratio_zeta(a, b) ==
  IF FqIsZero(a) THEN {Returned(TRUE, a)}
  ELSE IF FqIsZero(b) THEN {Returned(FALSE, b)}
  ELSE LET inv == FqInverse(b)
       IN IF ~inv.some THEN {Panicked}
          ELSE LET uv == FqMul(inv.val, a)
               IN IF FqSqrt(uv) # {}
                  THEN {Returned(TRUE, y) : y \in FqSqrt(uv)}
                  ELSE LET zs == FqSqrt(FqMul(ZETA, uv))
                       IN IF zs = {} THEN {Panicked}
                          ELSE {Returned(FALSE, y) : y \in zs}

SqIdle == Returned(FALSE, 0)

\* Fq::sqrt_ratio_zeta(&u, &v)
SqrtRatioZeta ==
  /\ sq_pc = "call"
  /\ \E o \in sqrt_ratio_zeta(sq_u, sq_v) : sq_out' = o
  /\ sq_pc' = "done"
  /\ UNCHANGED <<sq_u, sq_v, invVars, csVars, opVars, lzVars>>

----------------------------------------------------------------------------
(* The Fp and Fr wrappers (fields/fp/u64/wrapper.rs, fields/fr/u64/wrapper.rs) *)

\* Width of a limb (u64).
WordBits == 64

Fp_B == 377

Fp_N_64 == (Fp_B + 63) \div 64

Fp_N == Fp_N_64

Fp_I == (49 * Fp_B + 57) \div 17

\* `f[f.len() - 1] >> 32 - 1`
Fp_sign_shift == 32 - 1

Fr_B == 251

Fr_N_64 == (Fr_B + 63) \div 64

Fr_N == Fr_N_64

\* The same expression rounded up.
Fr_I_ceil == (49 * Fr_B + 57 + 16) \div 17

Fr_I == (49 * Fr_B + 57) \div 17

\* `f[f.len() - 1] >> (64 - 1)`
Fr_sign_shift == 64 - 1

Fp_N_8 == (Fp_B + 7) \div 8

Fr_N_8 == (Fr_B + 7) \div 8

FpField ==
  [m |-> Params.p, B |-> Fp_B, N |-> Fp_N, I |-> Fp_I, shift |-> Fp_sign_shift,
   N_8 |-> Fp_N_8]

FrField ==
  [m |-> Params.r, B |-> Fr_B, N |-> Fr_N, I |-> Fr_I, shift |-> Fr_sign_shift,
   N_8 |-> Fr_N_8]

Field(name) == IF name = "Fp" THEN FpField ELSE FrField

(* The fiat-crypto primitives the wrappers call, by their postconditions.  *)
(* Field elements are integers in 0 .. m - 1; the Montgomery form of x is  *)
(* x * R mod m with R = 2^(64 * N).                                        *)

MontR(F) == PowMod(2, WordBits * F.N, F.m)

fiat_to_montgomery(F, x) == (x * MontR(F)) % F.m

fiat_from_montgomery(F, x) == (x * InvMod(MontR(F), F.m)) % F.m

fiat_add(F, x, y) == (x + y) % F.m

fiat_sub(F, x, y) == (x - y + F.m) % F.m

fiat_opp(F, x) == (F.m - x) % F.m

fiat_mul(F, x, y) == (((x * y) % F.m) * InvMod(MontR(F), F.m)) % F.m

\* out1 = 0 iff every limb of the argument is 0
fiat_nonzero(F, x) == x

\* the modulus, as N + 1 saturated limbs
fiat_msat(F) == F.m

\* out1 = (if arg1 = 0 then arg2 else arg3)
fiat_selectznz(c, z, nz) == IF c = 0 THEN z ELSE nz

\* One Bernstein-Yang divstep. d, f, g are two's-complement integers, v and
\* r are field elements in Montgomery form.
fiat_divstep(F, s) ==
  IF 0 < s.d /\ s.g % 2 = 1
  THEN [d |-> 1 - s.d, f |-> s.g, g |-> (s.g - s.f) \div 2,
        v |-> (2 * s.r) % F.m, r |-> (s.r - s.v + F.m) % F.m, i |-> s.i]
  ELSE [d |-> 1 + s.d, f |-> s.f, g |-> (s.g + (s.g % 2) * s.f) \div 2,
        v |-> (2 * s.v) % F.m, r |-> (s.r + (s.g % 2) * s.v) % F.m, i |-> s.i]

\* The iteration count the precomputed constant is made for.
FiatIterations(bits) ==
  IF bits < 46 THEN (49 * bits + 80) \div 17 ELSE (49 * bits + 57) \div 17

\* ((m - 1) / 2) ^ iterations, in Montgomery form
fiat_divstep_precomp(F) ==
  fiat_to_montgomery(F, PowMod((F.m - 1) \div 2, FiatIterations(F.B), F.m))

\* x >> k on a two's-complement integer, one bit at a time.
RECURSIVE ShiftRight(_, _)
ShiftRight(x, k) ==
  IF k = 0 \/ x = 0 \/ x = -1 THEN x ELSE ShiftRight(x \div 2, k - 1)

\* x << k, one bit at a time.
RECURSIVE ShiftLeft(_, _)
ShiftLeft(x, k) == IF k = 0 \/ x = 0 THEN x ELSE ShiftLeft(2 * x, k - 1)

\* The low k bits of x.
RECURSIVE LowBits(_, _)
LowBits(x, k) ==
  IF k = 0 \/ x = 0 THEN 0 ELSE (x % 2) + 2 * LowBits(x \div 2, k - 1)

\* A variant that reads the limb of the magnitude of x.
TopLimbBit_of_magnitude(F, x, k) ==
  ShiftRight(ShiftRight(IF x < 0 THEN -x ELSE x, WordBits * F.N), k) % 2

\* `(f[f.len() - 1] >> k) & 1`: bit k of the most significant limb, limb N
\* of the N + 1 limbs, of the two's-complement integer x.
TopLimbBit(F, x, k) == ShiftRight(ShiftRight(x, WordBits * F.N), k) % 2

(* The wrappers *)

zero(F) == 0

\* Fp::one() / Fr::ONE: the pinned limbs are R mod m
one(F) == MontR(F)

\* PartialEq::eq
eq(F, x, y) == fiat_nonzero(F, fiat_sub(F, x, y)) = 0

mul(F, x, y) == fiat_mul(F, x, y)

\* A variant without the early return.
inverse_is_none_never(F, x) == FALSE

\* `if self == &Fp::zero() { return None; }`
inverse_is_none(F, x) == eq(F, x, zero(F))

\* A variant that keeps the candidate whatever the sign of f.
inverse_select_keep(F, s) == s.v

\* The sign of f selects v or -v.
inverse_select(F, s) ==
  fiat_selectznz(TopLimbBit(F, s.f, F.shift), s.v, fiat_opp(F, s.v))

\* `while i < I - I % 2`
inverse_loop_cond(F, s) == s.i < F.I - (F.I % 2)

\* The locals before the loop.
inverse_locals(F, x) ==
  [d |-> 1, f |-> fiat_msat(F), g |-> fiat_from_montgomery(F, x),
   v |-> 0, r |-> one(F), i |-> 0]

\* One pass of the loop body: two divsteps, i += 2.
inverse_loop_body(F, s) ==
  [fiat_divstep(F, fiat_divstep(F, s)) EXCEPT !.i = s.i + 2]

\* `if I % 2 != 0 { divstep; v = out4; f = out2; }`
inverse_extra(F, s) ==
  IF F.I % 2 # 0
  THEN [s EXCEPT !.v = fiat_divstep(F, s).v, !.f = fiat_divstep(F, s).f]
  ELSE s

\* The tail of inverse: selection and the multiplication by the constant.
inverse_tail(F, s) ==
  fiat_mul(F, inverse_select(F, s), fiat_divstep_precomp(F))

InvLocIdle == [d |-> 0, f |-> 0, g |-> 0, v |-> 0, r |-> 0, i |-> 0]

\* inverse(), up to the loop
InverseCall ==
  /\ inv_pc = "call"
  /\ LET F == Field(inv_field)
     IN IF inverse_is_none(F, inv_self)
        THEN /\ inv_result' = None
             /\ inv_pc' = "done"
             /\ UNCHANGED inv_loc
        ELSE /\ inv_loc' = inverse_locals(F, inv_self)
             /\ inv_pc' = "loop"
             /\ UNCHANGED inv_result
  /\ UNCHANGED <<inv_field, inv_self, inv_rounds, sqVars, csVars, opVars, lzVars>>

\* inverse(), one pass of the paired loop
InverseLoop ==
  /\ inv_pc = "loop"
  /\ inverse_loop_cond(Field(inv_field), inv_loc)
  /\ inv_loc' = inverse_loop_body(Field(inv_field), inv_loc)
  /\ inv_rounds' = inv_rounds + 2
  /\ UNCHANGED <<inv_field, inv_self, inv_result, inv_pc, sqVars, csVars, opVars, lzVars>>

\* inverse(), from the end of the loop to the return
InverseReturn ==
  /\ inv_pc = "loop"
  /\ ~inverse_loop_cond(Field(inv_field), inv_loc)
  /\ LET F == Field(inv_field)
         s == inverse_extra(F, inv_loc)
     IN /\ inv_loc' = s
        /\ inv_rounds' = inv_rounds + (IF F.I % 2 # 0 THEN 1 ELSE 0)
        /\ inv_result' = Some(inverse_tail(F, s))
  /\ inv_pc' = "done"
  /\ UNCHANGED <<inv_field, inv_self, sqVars, csVars, opVars, lzVars>>

----------------------------------------------------------------------------
(* The twisted Edwards curve a x^2 + y^2 = 1 + d x^2 y^2 over Fq *)

COEFF_A == Q - 1

COEFF_D == Params.d

Pt(px, py) == [x |-> px, y |-> py]

OnCurve(P) ==
  FqAdd(FqMul(COEFF_A, FqSquare(P.x)), FqSquare(P.y))
    = FqAdd(1, FqMul(COEFF_D, FqMul(FqSquare(P.x), FqSquare(P.y))))

AllPairs == {Pt(px, py) : px \in Fq, py \in Fq}

CurvePoints == {P \in AllPairs : OnCurve(P)}

\* Edwards addition (self.inner + other.inner)
ed_add(P1, P2) ==
  LET k == FqMul(COEFF_D, FqMul(FqMul(P1.x, P2.x), FqMul(P1.y, P2.y)))
      xn == FqAdd(FqMul(P1.x, P2.y), FqMul(P1.y, P2.x))
      yn == FqSub(FqMul(P1.y, P2.y), FqMul(COEFF_A, FqMul(P1.x, P2.x)))
  IN Pt(FqMul(xn, InvMod(FqAdd(1, k), Q)), FqMul(yn, InvMod(FqSub(1, k), Q)))

\* The image of the Decaf encoding: the even points, P = Q + Q.
DecafPoints == {ed_add(P, P) : P \in CurvePoints}

Identity == Pt(0, 1)

----------------------------------------------------------------------------
(* The FqVar extension gadgets (r1cs/fqvar_ext.rs): value and constraints *)

is_nonnegative(x) == x % 2 = 0

is_negative(x) == x % 2 = 1

abs(x) == IF is_nonnegative(x) THEN x ELSE FqNeg(x)

\* isqrt witnesses sqrt_ratio_zeta(1, x) and constrains the witnesses:
\*   was_square: r^2 x = 1;  ~was_square, x = 0: r = 0;
\*   ~was_square, x # 0: r^2 x = ZETA.
isqrt_constraint(x, w, y) ==
  IF w THEN FqMul(FqSquare(y), x) = 1
  ELSE IF x = 0 THEN y = 0
  ELSE FqMul(FqSquare(y), x) = ZETA

isqrt(x) ==
  {[panic |-> o.panic, was_square |-> o.was_square, r |-> o.r,
    sat |-> ~o.panic /\ isqrt_constraint(x, o.was_square, o.r)] :
      o \in sqrt_ratio_zeta(1, x)}

\* isqrt witnesses its two results: the Boolean and the root.
isqrt_witnesses == 2

----------------------------------------------------------------------------
(* ElementVar (ark_curve/r1cs/inner.rs) *)

A_MINUS_D == FqSub(COEFF_A, COEFF_D)

\* A variant of step 3 without the absolute value.
compress_u_2_no_abs(v_var, u_1_var) == FqMul(v_var, u_1_var)

\* 3. u_2 = abs(v * u_1)
compress_u_2(v_var, u_1_var) == abs(FqMul(v_var, u_1_var))

\* A variant of step 5 without the absolute value.
compress_s_no_abs(v_var, u_3_var, X_var) ==
  FqMul(FqMul(FqMul(A_MINUS_D, v_var), u_3_var), X_var)

\* 5. s = abs((a - d) * v * u_3 * X)
compress_s(v_var, u_3_var, X_var) ==
  abs(FqMul(FqMul(FqMul(A_MINUS_D, v_var), u_3_var), X_var))

\* compress_to_field: the outcomes [panic, s, sat], one per isqrt outcome
compress_to_field(P) ==
  LET X_var == P.x
      Y_var == P.y
      Z_var == 1
      T_var == FqMul(X_var, Y_var)
      u_1_var == FqMul(FqAdd(X_var, T_var), FqSub(X_var, T_var))
      den_var == FqMul(FqMul(u_1_var, A_MINUS_D), FqSquare(X_var))
  IN {LET u_2_var == compress_u_2(o.r, u_1_var)
          u_3_var == FqSub(FqMul(u_2_var, Z_var), T_var)
      IN [panic |-> o.panic, s |-> compress_s(o.r, u_3_var, X_var),
          sat |-> o.sat, witness |-> isqrt_witnesses, constraints |-> 0] :
        o \in isqrt(den_var)}

D4 == FqMul(COEFF_D, 4 % Q)

\* A variant that does not enforce was_square.
decompress_enforced_sign_only(nonneg, was_square) == nonneg

\* 2. and 5.: is_nonnegative and was_square are both enforced equal to TRUE
decompress_enforced(nonneg, was_square) == nonneg /\ was_square

\* The two enforce_equal calls of decompress_from_field.
decompress_enforce_calls == 2

\* A variant of step 6 that never negates.
decompress_sign_check_keep(check_var, v_var) == v_var

\* A variant of step 6 that negates when the check is non-negative.
decompress_sign_check_inverted(check_var, v_var) ==
  IF is_negative(check_var) THEN v_var ELSE FqNeg(v_var)

\* 6. v = select(check.is_negative(), -v, v)
decompress_sign_check(check_var, v_var) ==
  IF is_negative(check_var) THEN FqNeg(v_var) ELSE v_var

\* decompress_from_field: the outcomes [panic, point, sat]
decompress_from_field(s_var) ==
  LET is_nonnegative_var == is_nonnegative(s_var)
      ss_var == FqSquare(s_var)
      u_1_var == FqSub(1, ss_var)
      u_2_var == FqSub(FqSquare(u_1_var), FqMul(D4, ss_var))
      den_var == FqMul(u_2_var, FqSquare(u_1_var))
      two_s_u_1_var == FqMul(FqMul(FqAdd(1, 1), s_var), u_1_var)
  IN {LET check_var == FqMul(two_s_u_1_var, o.r)
          v_var == decompress_sign_check(check_var, o.r)
          x_var == FqMul(FqMul(two_s_u_1_var, FqSquare(v_var)), u_2_var)
          y_var == FqMul(FqMul(FqAdd(1, ss_var), v_var), u_1_var)
      IN [panic |-> o.panic, point |-> Pt(x_var, y_var),
          sat |-> o.sat /\ decompress_enforced(is_nonnegative_var, o.was_square),
          witness |-> isqrt_witnesses, constraints |-> decompress_enforce_calls] :
        o \in isqrt(den_var)}

\* A variant that compares the coordinates one by one.
is_eq_pointwise(P1, P2) == P1.x = P2.x /\ P1.y = P2.y

\* EqGadget::is_eq: X_1 * Y_2 = X_2 * Y_1
is_eq(P1, P2) == FqMul(P1.x, P2.y) = FqMul(P2.x, P1.y)

\* Element::vartime_compress_to_field, the encoding outside the circuit, on
\* (X, Y, Z, T) = (x, y, 1, x y): the outcomes [panic, s], one per root
\* sqrt_ratio_zeta may return.
vartime_compress_to_field(P) ==
  LET X == P.x
      Y == P.y
      Z == 1
      T == FqMul(X, Y)
      u_1 == FqMul(FqAdd(X, T), FqSub(X, T))
  IN {LET u_2 == abs(FqMul(o.r, u_1))
          u_3 == FqSub(FqMul(u_2, Z), T)
      IN [panic |-> o.panic,
          s |-> abs(FqMul(FqMul(FqMul(A_MINUS_D, o.r), u_3), X))] :
        o \in sqrt_ratio_zeta(1, FqMul(FqMul(u_1, A_MINUS_D), FqSquare(X)))}

\* A variant that allocates the coordinates whatever the mode.
alloc_variables_always(mode) == 2

\* new_variable_omit_prime_order_check allocates x and y in the given mode:
\* two variables, or none for constants.
alloc_variables(mode) == IF mode = "Constant" THEN 0 ELSE 2

\* A variant that allocates without the curve equation.
alloc_on_curve_unchecked(P_var, mode) == TRUE

\* new_variable_omit_prime_order_check enforces the curve equation on the
\* coordinates it allocates, unless they are constants:
\* a x^2 - 1 = y^2 (d x^2 - 1).
alloc_on_curve(P_var, mode) ==
  mode = "Constant" \/
    FqMul(FqSub(FqMul(FqSquare(P_var.x), COEFF_D), 1), FqSquare(P_var.y))
      = FqSub(FqMul(FqSquare(P_var.x), COEFF_A), 1)

\* The mul_equals call that enforces it.
alloc_enforce_calls(mode) == IF mode = "Constant" THEN 0 ELSE 1

\* A variant that witnesses zero where the code witnesses the encoding.
new_variable_compressed_zero(field_element) == 0

\* 2. Witness the encoded value
new_variable_compressed(field_element) == field_element

\* A variant that enforces nothing between the decoded and the given point.
new_variable_enforced_nothing(decoded_var, P_element_var) == TRUE

\* decoded_var.enforce_equal(&P_element_var)
new_variable_enforced(decoded_var, P_element_var) ==
  is_eq(decoded_var, P_element_var)

\* AllocVar<Element, Fq>::new_variable: the outcomes
\* [panic, var, sat, instance, witness, constraints]
new_variable(group_projective_point, mode) ==
  LET P_var == Pt(group_projective_point.x, group_projective_point.y)
  IN CASE mode = "Constant" ->
            {[panic |-> FALSE, var |-> P_var, sat |-> alloc_on_curve(P_var, mode),
              instance |-> 0, witness |-> alloc_variables(mode),
              constraints |-> alloc_enforce_calls(mode)]}
       [] mode = "Input" ->
            {[panic |-> TRUE, var |-> P_var, sat |-> TRUE, instance |-> 0,
              witness |-> 0, constraints |-> 0]}
       [] mode = "Witness" ->
            {[panic |-> e.panic \/ o.panic,
              var |-> o.point,
              sat |-> /\ alloc_on_curve(P_var, mode)
                      /\ o.sat
                      /\ new_variable_enforced(o.point, P_var),
              instance |-> 0,
              witness |-> alloc_variables(mode) + 1 + o.witness,
              constraints |-> alloc_enforce_calls(mode) + o.constraints + 1] :
               <<e, o>> \in UNION {{<<e1, o1>> :
                  o1 \in decompress_from_field(new_variable_compressed(e1.s))} :
                    e1 \in vartime_compress_to_field(group_projective_point)}}


\* FqVar::inverse: the inverse is witnessed (zero for zero) and x * inv = 1 is
\* enforced, which nothing satisfies for x = 0.
FqVar_inverse(x) ==
  [val |-> IF x = 0 THEN 0 ELSE InvMod(x, Q), sat |-> x # 0]

A_MINUS_2D == FqSub(COEFF_A, FqMul(FqAdd(1, 1), COEFF_D))

\* A variant of t without the final subtraction of one.
elligator_t_no_minus_one(sgn_var, isri_var, s_var, r_var) ==
  FqMul(FqMul(FqMul(FqMul(FqNeg(sgn_var), isri_var), s_var), FqSub(r_var, 1)),
        FqSquare(A_MINUS_2D))

\* t = -sgn * isri * s * (r - 1) * (a - 2d)^2 - 1
elligator_t(sgn_var, isri_var, s_var, r_var) ==
  FqSub(FqMul(FqMul(FqMul(FqMul(FqNeg(sgn_var), isri_var), s_var),
                    FqSub(r_var, 1)),
              FqSquare(A_MINUS_2D)),
        1)

\* A variant that negates when the two flags differ.
elligator_cond_negate_differ(is_negative_var, iss_var) ==
  is_negative_var # iss_var

\* cond_negate = is_negative_var.is_eq(&iss_var)
elligator_cond_negate(is_negative_var, iss_var) == is_negative_var = iss_var

\* ElementVar::elligator_map: the outcomes [panic, sat, point, s, iss], one
\* per isqrt outcome; s is its value after the conditional negation.
elligator_map(r_0_var) ==
  LET r_var == FqMul(ZETA, FqSquare(r_0_var))
      D_MINUS_A == FqSub(COEFF_D, COEFF_A)
      den_var == FqMul(FqSub(FqMul(COEFF_D, r_var), D_MINUS_A),
                       FqSub(FqMul(D_MINUS_A, r_var), COEFF_D))
      num_var == FqMul(FqAdd(r_var, 1), A_MINUS_2D)
      x_var == FqMul(num_var, den_var)
  IN {LET sgn_var == IF o.was_square THEN 1 ELSE FqNeg(1)
          twiddle_var == IF o.was_square THEN 1 ELSE r_0_var
          isri_var == FqMul(o.r, twiddle_var)
          s_0 == FqMul(isri_var, num_var)
          t_var == elligator_t(sgn_var, isri_var, s_0, r_var)
          cond_negate == elligator_cond_negate(is_negative(s_0), o.was_square)
          s_var == IF cond_negate THEN FqNeg(s_0) ELSE s_0
          affine_x_num == FqMul(FqAdd(1, 1), s_var)
          affine_x_den == FqVar_inverse(FqAdd(1, FqMul(COEFF_A, FqSquare(s_var))))
          affine_y_num == FqSub(1, FqMul(COEFF_A, FqSquare(s_var)))
          affine_y_den == FqVar_inverse(t_var)
      IN [panic |-> o.panic,
          sat |-> o.sat /\ affine_x_den.sat /\ affine_y_den.sat,
          point |-> Pt(FqMul(affine_x_num, affine_x_den.val),
                       FqMul(affine_y_num, affine_y_den.val)),
          s |-> s_var, iss |-> o.was_square] : o \in isqrt(x_var)}

----------------------------------------------------------------------------
(* Scalar multiplication (ops/projective.rs) *)

Fr == 0 .. Params.r - 1

\* Fr addition
FrAdd(k1, k2) == (k1 + k2) % Params.r

\* p *= k on the inner point: double and add over the integer k.
RECURSIVE scalar_mul(_, _)
scalar_mul(P, k) ==
  IF k = 0 THEN Identity
  ELSE LET h == scalar_mul(P, k \div 2)
           hh == ed_add(h, h)
       IN IF k % 2 = 1 THEN ed_add(hh, P) ELSE hh

\* MulAssign<&Fr> for Element; MulAssign<Fr> calls it.
mul_assign(P, k) == scalar_mul(P, k)

\* Mul<&Fr> for &Element; the Element * Fr overloads by value call it.
mul_element_fr(P, k) == scalar_mul(P, k)

\* A variant that returns the point whatever the scalar.
mul_fr_element_keep(k, P) == P

\* Mul<&Element> for &Fr: point * self; the Fr * Element overloads by value
\* call it.
mul_fr_element(k, P) == mul_element_fr(P, k)

MulForms == {"mul_assign", "element_fr", "fr_element"}

mul_form(form, P, k) ==
  CASE form = "mul_assign" -> mul_assign(P, k)
    [] form = "element_fr" -> mul_element_fr(P, k)
    [] form = "fr_element" -> mul_fr_element(k, P)

----------------------------------------------------------------------------
(* A circuit that applies the gadgets to a given point or field element *)

\* Longest sequence of gadget calls followed.
MaxOps == 2

NoPoint == [some |-> FALSE, val |-> Identity]

PointInput(P) == [kind |-> "point", point |-> P, s |-> 0, mode |-> "none"]

FieldInput(x) == [kind |-> "field", point |-> Identity, s |-> x, mode |-> "none"]

\* An Element and the AllocationMode given to new_variable.
AllocInput(P, m) == [kind |-> "alloc", point |-> P, s |-> 0, mode |-> m]

NoInput == [kind |-> "none", point |-> Identity, s |-> 0, mode |-> "none"]

AllocationMode == {"Constant", "Input", "Witness"}

\* The variables and constraints this code asks the constraint system for
\* (allocations, witnessed results, enforce calls); the constraints the field
\* variables add for their own arithmetic are not counted.
NumEmpty == [instance |-> 1, witness |-> 0, constraints |-> 0]

NumAdd(n, i, w, c) ==
  [instance |-> n.instance + i, witness |-> n.witness + w,
   constraints |-> n.constraints + c]

CircuitRunning ==
  /\ cs_input.kind # "none"
  /\ Len(cs_ops) < MaxOps
  /\ \A k \in 1 .. Len(cs_ops) : cs_ops[k] # "panic"

\* self.compress_to_field()
Compress ==
  /\ CircuitRunning
  /\ cs_point.some
  /\ \E o \in compress_to_field(cs_point.val) :
       /\ cs_s' = Some(o.s)
       /\ cs_sat' = (cs_sat /\ o.sat)
       /\ cs_ops' = Append(cs_ops, IF o.panic THEN "panic" ELSE "compress")
       /\ cs_num' = NumAdd(cs_num, 0, o.witness, o.constraints)
  /\ UNCHANGED <<cs_input, cs_point, sqVars, invVars, opVars, lzVars>>

\* ElementVar::decompress_from_field(s_var)
Decompress ==
  /\ CircuitRunning
  /\ cs_s.some
  /\ \E o \in decompress_from_field(cs_s.val) :
       /\ cs_point' = Some(o.point)
       /\ cs_sat' = (cs_sat /\ o.sat)
       /\ cs_ops' = Append(cs_ops, IF o.panic THEN "panic" ELSE "decompress")
       /\ cs_num' = NumAdd(cs_num, 0, o.witness, o.constraints)
  /\ UNCHANGED <<cs_input, cs_s, sqVars, invVars, opVars, lzVars>>

\* ElementVar::new_variable(cs, || Ok(element), mode)
NewVariable ==
  /\ CircuitRunning
  /\ cs_input.kind = "alloc"
  /\ ~cs_point.some
  /\ \E o \in new_variable(cs_input.point, cs_input.mode) :
       /\ cs_point' = IF o.panic THEN cs_point ELSE Some(o.var)
       /\ cs_sat' = (cs_sat /\ o.sat)
       /\ cs_ops' = Append(cs_ops, IF o.panic THEN "panic" ELSE "alloc")
       /\ cs_num' = NumAdd(cs_num, o.instance, o.witness, o.constraints)
  /\ UNCHANGED <<cs_input, cs_s, sqVars, invVars, opVars, lzVars>>

----------------------------------------------------------------------------
(* Calls of the pure operations: is_eq, elligator_map, scalar multiplication *)

NoArgs == [P |-> Identity, Q |-> Identity, x |-> 0, k1 |-> 0, k2 |-> 0,
           form |-> "none"]

NoOut == [panic |-> FALSE, sat |-> TRUE, eq |-> FALSE, point |-> Identity,
          other |-> Identity, s |-> 0, iss |-> FALSE, enc |-> <<>>]


OpCall(name) == op_name = name /\ op_pc = "call"

\* P.is_eq(&Q)
IsEq ==
  /\ OpCall("is_eq")
  /\ op_out' = [NoOut EXCEPT !.eq = is_eq(op_args.P, op_args.Q)]
  /\ op_pc' = "done"
  /\ UNCHANGED <<op_name, op_args, op_stack, sqVars, invVars, csVars, lzVars>>

\* ElementVar::elligator_map(&r_0)
ElligatorMap ==
  /\ OpCall("elligator_map")
  /\ \E o \in elligator_map(op_args.x) :
       op_out' = [NoOut EXCEPT !.panic = o.panic, !.sat = o.sat,
                               !.point = o.point, !.s = o.s, !.iss = o.iss]
  /\ op_pc' = "done"
  /\ UNCHANGED <<op_name, op_args, op_stack, sqVars, invVars, csVars, lzVars>>

\* k1 * P + k2 * P and (k1 + k2) * P, in one of the operand forms
ScalarMul ==
  /\ OpCall("mul")
  /\ op_out' =
       [NoOut EXCEPT
          !.point = ed_add(mul_form(op_args.form, op_args.P, op_args.k1),
                           mul_form(op_args.form, op_args.P, op_args.k2)),
          !.other = mul_form(op_args.form, op_args.P,
                             FrAdd(op_args.k1, op_args.k2))]
  /\ op_pc' = "done"
  /\ UNCHANGED <<op_name, op_args, op_stack, sqVars, invVars, csVars, lzVars>>

----------------------------------------------------------------------------
(* The lazily initialised constants (ark_curve/constants.rs), read by       *)
(* several threads                                                          *)

\* Number of threads reading the constants.
MaxThreads == 2

\* Number of reads the threads make in all.
MaxReads == 2

Threads == 1 .. MaxThreads

LazyCells ==
  {"ONE", "TWO", "M", "M_MINUS_ONE_DIV_TWO", "ZETA_TO_ONE_MINUS_M_DIV_TWO",
   "G", "R"}

\* The odd part of n: n / 2^N for the 2-adicity N of n.
RECURSIVE OddPart(_)
OddPart(n) == IF n % 2 = 0 THEN OddPart(n \div 2) ELSE n

\* M is (p - 1) / 2^N
M_value == OddPart(Q - 1)

\* The constants another constant's initialiser dereferences: G = ZETA^M.
LazyDeps(c) == IF c = "G" THEN {"M"} ELSE {}

\* What the initialiser of c computes, given the cells it dereferences.
lazy_compute(c, value) ==
  CASE c = "ONE" -> 1
    [] c = "TWO" -> FqAdd(1, 1)
    [] c = "M" -> M_value
    [] c = "M_MINUS_ONE_DIV_TWO" -> (M_value - 1) \div 2
    [] c = "ZETA_TO_ONE_MINUS_M_DIV_TWO" ->
         InvMod(PowMod(ZETA, (M_value - 1) \div 2, Q), Q)
    [] c = "G" -> PowMod(ZETA, value["M"], Q)
    [] c = "R" -> Params.r % Params.r

\* The value of each constant: what its initialiser computes from
\* initialised cells.
LazyValue(c) == lazy_compute(c, [d \in LazyCells |-> M_value])

\* A variant in which a second thread may run the initialiser while the
\* first is still running it.
lazy_may_init_racy(state) == state # "done"

\* Lazy: only the thread that finds the cell uninitialised runs the
\* initialiser; the others wait for it.
lazy_may_init(state) == state = "uninit"

\* The reads started so far by the threads 1 .. n.
RECURSIVE ReadsStarted(_)
ReadsStarted(n) ==
  IF n = 0 THEN 0
  ELSE ReadsStarted(n - 1) + th_reads[n]
         + (IF th_target[n] # "none" THEN 1 ELSE 0)

Observe(t, c, x) ==
  /\ th_seen' = [th_seen EXCEPT ![t] = @ \cup {<<c, x>>}]
  /\ th_reads' = [th_reads EXCEPT ![t] = @ + 1]
  /\ th_target' = [th_target EXCEPT ![t] = "none"]

\* Thread t dereferences the constant c: it reads the cell, starts the
\* initialiser, or waits for the thread that runs it.
LazyDeref(t, c) ==
  /\ th_target[t] = "none"
  /\ ReadsStarted(MaxThreads) < MaxReads
  /\ IF lz_state[c] = "done"
     THEN /\ Observe(t, c, lz_value[c])
          /\ UNCHANGED <<lz_state, lz_value, lz_inits, th_stack>>
     ELSE IF lazy_may_init(lz_state[c])
     THEN /\ lz_state' = [lz_state EXCEPT ![c] = "running"]
          /\ lz_inits' = [lz_inits EXCEPT ![c] = @ + 1]
          /\ th_stack' = [th_stack EXCEPT ![t] = <<c>>]
          /\ th_target' = [th_target EXCEPT ![t] = c]
          /\ UNCHANGED <<lz_value, th_seen, th_reads>>
     ELSE /\ th_target' = [th_target EXCEPT ![t] = c]
          /\ UNCHANGED <<lz_state, lz_value, lz_inits, th_stack, th_seen,
                         th_reads>>
  /\ UNCHANGED <<sqVars, invVars, csVars, opVars>>

\* Thread t, which waited for another thread's initialiser, reads the cell.
LazyWake(t) ==
  /\ th_target[t] # "none"
  /\ th_stack[t] = <<>>
  /\ lz_state[th_target[t]] = "done"
  /\ Observe(t, th_target[t], lz_value[th_target[t]])
  /\ UNCHANGED <<lz_state, lz_value, lz_inits, th_stack>>
  /\ UNCHANGED <<sqVars, invVars, csVars, opVars>>

\* Thread t runs the initialiser of the innermost constant on its stack: it
\* first forces a constant the initialiser dereferences, then stores the
\* value.
LazyInit(t) ==
  /\ th_stack[t] # <<>>
  /\ LET c == th_stack[t][Len(th_stack[t])]
         missing == {d \in LazyDeps(c) : lz_state[d] # "done"}
     IN IF missing # {}
        THEN \E d \in missing :
               /\ lazy_may_init(lz_state[d])
               /\ lz_state' = [lz_state EXCEPT ![d] = "running"]
               /\ lz_inits' = [lz_inits EXCEPT ![d] = @ + 1]
               /\ th_stack' = [th_stack EXCEPT ![t] = Append(@, d)]
               /\ UNCHANGED <<lz_value, th_target, th_seen, th_reads>>
        ELSE /\ lz_value' = [lz_value EXCEPT ![c] = lazy_compute(c, lz_value)]
             /\ lz_state' = [lz_state EXCEPT ![c] = "done"]
             /\ th_stack' = [th_stack EXCEPT ![t] = SubSeq(@, 1, Len(@) - 1)]
             /\ UNCHANGED lz_inits
             /\ IF Len(th_stack[t]) = 1
                THEN Observe(t, c, lazy_compute(c, lz_value))
                ELSE UNCHANGED <<th_target, th_seen, th_reads>>
  /\ UNCHANGED <<sqVars, invVars, csVars, opVars>>

NextLazy ==
  \E t \in Threads :
    \/ \E c \in LazyCells : LazyDeref(t, c)
    \/ LazyWake(t)
    \/ LazyInit(t)

----------------------------------------------------------------------------
(* Byte and limb encodings of Fp and Fr (wrapper.rs) *)

\* Width of a byte (u8).
ByteBits == 8

\* The n little-endian digits of x, each of the given number of bits.
to_le_digits(x, n, bits) ==
  [i \in 1 .. n |-> LowBits(ShiftRight(x, bits * (i - 1)), bits)]

\* The integer whose little-endian digits are digits[lo], ..., digits[hi].
RECURSIVE from_le_digits_in(_, _, _, _)
from_le_digits_in(digits, lo, hi, bits) ==
  IF lo > hi THEN 0
  ELSE IF lo = hi THEN digits[lo]
  ELSE LET mid == (lo + hi) \div 2
       IN from_le_digits_in(digits, lo, mid, bits)
            + ShiftLeft(from_le_digits_in(digits, mid + 1, hi, bits),
                        bits * (mid + 1 - lo))

\* The integer with the given little-endian digits.
from_le_digits(digits, bits) == from_le_digits_in(digits, 1, Len(digits), bits)

\* out1 is the little-endian byte string of arg1 (not in Montgomery form)
fiat_to_bytes(F, x) == to_le_digits(x, F.N_8, ByteBits)

\* out1 is the integer of the little-endian byte string arg1
fiat_from_bytes(F, bytes) == from_le_digits(bytes, ByteBits)

from_le_limbs(F, limbs) == fiat_to_montgomery(F, from_le_digits(limbs, WordBits))

\* A variant that keeps the decoded integer as the Montgomery form.
from_bytes_no_montgomery(F, bytes) == fiat_from_bytes(F, bytes)

\* Fp::from_bytes / Fr::from_raw_bytes
from_bytes(F, bytes) == fiat_to_montgomery(F, fiat_from_bytes(F, bytes))

to_le_limbs(F, x) == to_le_digits(fiat_from_montgomery(F, x), F.N, WordBits)

to_bytes_le(F, x) == fiat_to_bytes(F, fiat_from_montgomery(F, x))

\* from_bytes(&x.to_bytes_le())
BytesRoundTrip ==
  /\ OpCall("bytes")
  /\ LET F == Field(op_args.form)
         bytes == to_bytes_le(F, op_args.x)
     IN op_out' = [NoOut EXCEPT !.enc = bytes, !.s = from_bytes(F, bytes)]
  /\ op_pc' = "done"
  /\ UNCHANGED <<op_name, op_args, op_stack, sqVars, invVars, csVars, lzVars>>

\* from_le_limbs(x.to_le_limbs())
LimbsRoundTrip ==
  /\ OpCall("limbs")
  /\ LET F == Field(op_args.form)
         limbs == to_le_limbs(F, op_args.x)
     IN op_out' = [NoOut EXCEPT !.enc = limbs, !.s = from_le_limbs(F, limbs)]
  /\ op_pc' = "done"
  /\ UNCHANGED <<op_name, op_args, op_stack, sqVars, invVars, csVars, lzVars>>

----------------------------------------------------------------------------
(* Element and AffineElement (element.rs, ops/projective.rs) *)

\* From<AffineElement> for Element: the extended coordinates (x, y, xy, 1)
into_element(A) == [X |-> A.x, Y |-> A.y, T |-> FqMul(A.x, A.y), Z |-> 1]

\* From<Element> for AffineElement: (X / Z, Y / Z)
into_affine(P) ==
  Pt(FqMul(P.X, InvMod(P.Z, Q)), FqMul(P.Y, InvMod(P.Z, Q)))

\* Add<&Element> for &Element: self.inner + other.inner on extended
\* coordinates
element_add(P1, P2) ==
  LET A == FqMul(P1.X, P2.X)
      B == FqMul(P1.Y, P2.Y)
      C == FqMul(COEFF_D, FqMul(P1.T, P2.T))
      D == FqMul(P1.Z, P2.Z)
      H == FqSub(B, FqMul(COEFF_A, A))
      E == FqSub(FqSub(FqMul(FqAdd(P1.X, P1.Y), FqAdd(P2.X, P2.Y)), A), B)
      F == FqSub(D, C)
      G == FqAdd(D, C)
  IN [X |-> FqMul(E, F), Y |-> FqMul(G, H), T |-> FqMul(E, H),
      Z |-> FqMul(F, G)]

\* Add<Element> for AffineElement: &self.into() + &other
add_affine_element(self, other) == element_add(into_element(self), other)

\* A variant that adds the unused local self_element.
add_affine_affine_self_element(self, other) ==
  LET other_element == into_element(other)
      self_element == into_element(other)
  IN element_add(self_element, other_element)

\* Add<AffineElement> for AffineElement: self_element is computed from
\* other and never used; the sum is self + other_element.
add_affine_affine(self, other) ==
  LET other_element == into_element(other)
      self_element == into_element(other)
  IN add_affine_element(self, other_element)

\* A + B for AffineElements A, B
AffineAdd ==
  /\ OpCall("affine_add")
  /\ op_out' = [NoOut EXCEPT !.point = add_affine_affine(op_args.P, op_args.Q)]
  /\ op_pc' = "done"
  /\ UNCHANGED <<op_name, op_args, op_stack, sqVars, invVars, csVars, lzVars>>

\* Neg for Element: -self.inner
element_neg(P) == [X |-> FqNeg(P.X), Y |-> P.Y, T |-> FqNeg(P.T), Z |-> P.Z]

\* Sub<&Element> for &Element: self.inner - other.inner
element_sub(P1, P2) == element_add(P1, element_neg(P2))

\* Number of frames the call stack holds.
MaxDepth == 4

\* The impls of the compound assignments of an AffineElement to an Element.
MixedAssignImpls ==
  {"AddAssign<&AffineElement>", "AddAssign<AffineElement>",
   "SubAssign<&AffineElement>", "SubAssign<AffineElement>"}

\* The impls that assign to *self without a further call.
assign_returns(impl) == impl \in {"AddAssign<&Element>", "SubAssign<&Element>"}

\* The impl that the compound assignment in the body of an impl resolves
\* to, by the type of its right-hand side.
assign_callee(impl) ==
  CASE impl = "AddAssign<&AffineElement>" -> "AddAssign<&AffineElement>"
    [] impl = "AddAssign<AffineElement>" -> "AddAssign<&AffineElement>"
    [] impl = "SubAssign<&AffineElement>" -> "SubAssign<&AffineElement>"
    [] impl = "SubAssign<AffineElement>" -> "SubAssign<Element>"
    [] impl = "SubAssign<Element>" -> "SubAssign<&Element>"
    [] impl = "AddAssign<Element>" -> "AddAssign<&Element>"

\* *self after AddAssign<&Element> / SubAssign<&Element>
assign_element(impl, P, other) ==
  IF impl = "AddAssign<&Element>" THEN element_add(P, other)
  ELSE element_sub(P, other)

\* One call made while `P += A` or `P -= A` runs: the innermost impl assigns
\* and every caller returns, or it makes the call in its body. A call for
\* which no frame is left aborts the process, unless the build reuses the
\* frame and the calls go on for ever.
MixedAssign ==
  /\ OpCall("assign")
  /\ LET impl == op_stack[Len(op_stack)]
     IN IF assign_returns(impl)
        THEN /\ op_out' = [NoOut EXCEPT !.point =
                             assign_element(impl, into_element(op_args.P),
                                            into_element(op_args.Q))]
             /\ op_pc' = "done"
             /\ op_stack' = <<>>
        ELSE IF Len(op_stack) < MaxDepth
        THEN /\ op_stack' = Append(op_stack, assign_callee(impl))
             /\ UNCHANGED <<op_out, op_pc>>
        ELSE /\ \/ op_out' = [NoOut EXCEPT !.panic = TRUE] /\ op_pc' = "done"
                \/ op_out' = NoOut /\ op_pc' = "diverged"
             /\ UNCHANGED op_stack
  /\ UNCHANGED <<op_name, op_args, sqVars, invVars, csVars, lzVars>>

----------------------------------------------------------------------------
(* Serialisation of ElementVar (ark_curve/r1cs/inner.rs) and of the older  *)
(* Decaf377ElementVar (r1cs/gadget.rs)                                     *)

\* Number of bits of the modulus of Fq.
FqModulusBits == CHOOSE k \in 1 .. 31 : ShiftRight(Q, k) = 0 /\ ShiftRight(Q, k - 1) # 0

\* FqVar::to_bits_le: the bits of the canonical representative
FqVar_to_bits_le(x) == to_le_digits(x, FqModulusBits, 1)

\* FqVar::to_bytes: the bytes of the canonical representative
FqVar_to_bytes(x) == to_le_digits(x, (FqModulusBits + 7) \div 8, ByteBits)

\* ElementVar::to_bits_le / to_bytes: self.inner.to_bits_le() is the bits of
\* x followed by the bits of y; to_bits_le() of a vector of bits is that
\* vector. Likewise for bytes.
ElementVar_serialise(form, P) ==
  IF form = "to_bits_le"
  THEN FqVar_to_bits_le(P.x) \o FqVar_to_bits_le(P.y)
  ELSE FqVar_to_bytes(P.x) \o FqVar_to_bytes(P.y)

\* Decaf377ElementVar::to_bits_le / to_bytes: the bits or bytes of
\* self.compress_to_field(), one outcome per outcome of the compression.
Decaf377ElementVar_serialise(form, P) ==
  {IF form = "to_bits_le" THEN FqVar_to_bits_le(o.s) ELSE FqVar_to_bytes(o.s) :
     o \in compress_to_field(P)}

\* P.to_bits_le() / P.to_bytes() for an ElementVar P
Serialise ==
  /\ OpCall("serialise")
  /\ op_out' = [NoOut EXCEPT !.enc = ElementVar_serialise(op_args.form, op_args.P)]
  /\ op_pc' = "done"
  /\ UNCHANGED <<op_name, op_args, op_stack, sqVars, invVars, csVars, lzVars>>

----------------------------------------------------------------------------
(* Valid for Element and for AffineElement (element.rs) *)

\* Valid::check: todo!()
valid_check(kind, P) == [panic |-> TRUE, ok |-> FALSE]

\* P.check() for an Element or an AffineElement P
ValidCheck ==
  /\ OpCall("check")
  /\ LET o == valid_check(op_args.form, op_args.P)
     IN op_out' = [NoOut EXCEPT !.panic = o.panic, !.sat = o.ok]
  /\ op_pc' = "done"
  /\ UNCHANGED <<op_name, op_args, op_stack, sqVars, invVars, csVars, lzVars>>

----------------------------------------------------------------------------
(* Specifications *)

NextApi ==
  \/ BytesRoundTrip
  \/ LimbsRoundTrip
  \/ AffineAdd
  \/ MixedAssign
  \/ Serialise
  \/ ValidCheck

NextSqrt == SqrtRatioZeta

NextInverse == InverseCall \/ InverseLoop \/ InverseReturn

NextCircuit == Compress \/ Decompress \/ NewVariable

\* The state before any call: no operation has anything to run.
InitSqrt ==
  /\ sq_u \in Fq
  /\ sq_v \in Fq
  /\ sq_out = SqIdle
  /\ sq_pc = "call"
  /\ inv_field = "none"
  /\ inv_self = 0
  /\ inv_loc = InvLocIdle
  /\ inv_rounds = 0
  /\ inv_result = None
  /\ inv_pc = "idle"
  /\ cs_input = NoInput
  /\ cs_point = NoPoint
  /\ cs_s = None
  /\ cs_sat = TRUE
  /\ cs_ops = <<>>
  /\ cs_num = NumEmpty
  /\ op_name = "none"
  /\ op_args = NoArgs
  /\ op_out = NoOut
  /\ op_pc = "idle"
  /\ op_stack = <<>>
  /\ lz_state = [c \in LazyCells |-> "uninit"]
  /\ lz_value = [c \in LazyCells |-> 0]
  /\ lz_inits = [c \in LazyCells |-> 0]
  /\ th_target = [t \in Threads |-> "none"]
  /\ th_stack = [t \in Threads |-> <<>>]
  /\ th_seen = [t \in Threads |-> {}]
  /\ th_reads = [t \in Threads |-> 0]

InitInverse ==
  /\ sq_u = 0
  /\ sq_v = 0
  /\ sq_out = SqIdle
  /\ sq_pc = "idle"
  /\ inv_field \in {"Fp", "Fr"}
  /\ inv_self \in 0 .. Field(inv_field).m - 1
  /\ inv_loc = InvLocIdle
  /\ inv_rounds = 0
  /\ inv_result = None
  /\ inv_pc = "call"
  /\ cs_input = NoInput
  /\ cs_point = NoPoint
  /\ cs_s = None
  /\ cs_sat = TRUE
  /\ cs_ops = <<>>
  /\ cs_num = NumEmpty
  /\ op_name = "none"
  /\ op_args = NoArgs
  /\ op_out = NoOut
  /\ op_pc = "idle"
  /\ op_stack = <<>>
  /\ lz_state = [c \in LazyCells |-> "uninit"]
  /\ lz_value = [c \in LazyCells |-> 0]
  /\ lz_inits = [c \in LazyCells |-> 0]
  /\ th_target = [t \in Threads |-> "none"]
  /\ th_stack = [t \in Threads |-> <<>>]
  /\ th_seen = [t \in Threads |-> {}]
  /\ th_reads = [t \in Threads |-> 0]

InitCircuit ==
  /\ sq_u = 0
  /\ sq_v = 0
  /\ sq_out = SqIdle
  /\ sq_pc = "idle"
  /\ inv_field = "none"
  /\ inv_self = 0
  /\ inv_loc = InvLocIdle
  /\ inv_rounds = 0
  /\ inv_result = None
  /\ inv_pc = "idle"
  /\ cs_input \in {PointInput(P) : P \in AllPairs}
                  \cup {FieldInput(x) : x \in Fq}
                  \cup {AllocInput(P, m) : P \in AllPairs, m \in AllocationMode}
  /\ cs_point = IF cs_input.kind = "point" THEN Some(cs_input.point) ELSE NoPoint
  /\ cs_s = IF cs_input.kind = "field" THEN Some(cs_input.s) ELSE None
  /\ cs_sat = TRUE
  /\ cs_ops = <<>>
  /\ cs_num = NumEmpty
  /\ op_name = "none"
  /\ op_args = NoArgs
  /\ op_out = NoOut
  /\ op_pc = "idle"
  /\ op_stack = <<>>
  /\ lz_state = [c \in LazyCells |-> "uninit"]
  /\ lz_value = [c \in LazyCells |-> 0]
  /\ lz_inits = [c \in LazyCells |-> 0]
  /\ th_target = [t \in Threads |-> "none"]
  /\ th_stack = [t \in Threads |-> <<>>]
  /\ th_seen = [t \in Threads |-> {}]
  /\ th_reads = [t \in Threads |-> 0]

NextOps == IsEq \/ ElligatorMap \/ ScalarMul

\* Before the first read: no cell holds a value.
InitLazy ==
  /\ sq_u = 0
  /\ sq_v = 0
  /\ sq_out = SqIdle
  /\ sq_pc = "idle"
  /\ inv_field = "none"
  /\ inv_self = 0
  /\ inv_loc = InvLocIdle
  /\ inv_rounds = 0
  /\ inv_result = None
  /\ inv_pc = "idle"
  /\ cs_input = NoInput
  /\ cs_point = NoPoint
  /\ cs_s = None
  /\ cs_sat = TRUE
  /\ cs_ops = <<>>
  /\ cs_num = NumEmpty
  /\ op_name = "none"
  /\ op_args = NoArgs
  /\ op_out = NoOut
  /\ op_pc = "idle"
  /\ op_stack = <<>>
  /\ lz_state = [c \in LazyCells |-> "uninit"]
  /\ lz_value = [c \in LazyCells |-> 0]
  /\ lz_inits = [c \in LazyCells |-> 0]
  /\ th_target = [t \in Threads |-> "none"]
  /\ th_stack = [t \in Threads |-> <<>>]
  /\ th_seen = [t \in Threads |-> {}]
  /\ th_reads = [t \in Threads |-> 0]

SpecLazy == InitLazy /\ [][NextLazy]_vars

InitOps ==
  /\ sq_u = 0
  /\ sq_v = 0
  /\ sq_out = SqIdle
  /\ sq_pc = "idle"
  /\ inv_field = "none"
  /\ inv_self = 0
  /\ inv_loc = InvLocIdle
  /\ inv_rounds = 0
  /\ inv_result = None
  /\ inv_pc = "idle"
  /\ cs_input = NoInput
  /\ cs_point = NoPoint
  /\ cs_s = None
  /\ cs_sat = TRUE
  /\ cs_ops = <<>>
  /\ cs_num = NumEmpty
  /\ op_name \in {"is_eq", "elligator_map", "mul"}
  /\ op_args \in
       CASE op_name = "is_eq" ->
              {[NoArgs EXCEPT !.P = P1, !.Q = P2] :
                 P1 \in CurvePoints, P2 \in AllPairs}
         [] op_name = "elligator_map" -> {[NoArgs EXCEPT !.x = x] : x \in Fq}
         [] op_name = "mul" ->
              {[NoArgs EXCEPT !.P = P1, !.k1 = k1, !.k2 = k2, !.form = f] :
                 P1 \in DecafPoints, k1 \in Fr, k2 \in Fr, f \in MulForms}
  /\ op_out = NoOut
  /\ op_pc = "call"
  /\ op_stack = <<>>
  /\ lz_state = [c \in LazyCells |-> "uninit"]
  /\ lz_value = [c \in LazyCells |-> 0]
  /\ lz_inits = [c \in LazyCells |-> 0]
  /\ th_target = [t \in Threads |-> "none"]
  /\ th_stack = [t \in Threads |-> <<>>]
  /\ th_seen = [t \in Threads |-> {}]
  /\ th_reads = [t \in Threads |-> 0]

SpecOps == InitOps /\ [][NextOps]_vars

InitApi ==
  /\ sq_u = 0
  /\ sq_v = 0
  /\ sq_out = SqIdle
  /\ sq_pc = "idle"
  /\ inv_field = "none"
  /\ inv_self = 0
  /\ inv_loc = InvLocIdle
  /\ inv_rounds = 0
  /\ inv_result = None
  /\ inv_pc = "idle"
  /\ cs_input = NoInput
  /\ cs_point = NoPoint
  /\ cs_s = None
  /\ cs_sat = TRUE
  /\ cs_ops = <<>>
  /\ cs_num = NumEmpty
  /\ op_name \in {"bytes", "limbs", "affine_add", "assign", "serialise", "check"}
  /\ op_args \in
       CASE op_name \in {"bytes", "limbs"} ->
              UNION {{[NoArgs EXCEPT !.x = x, !.form = f] :
                        x \in 0 .. Field(f).m - 1} : f \in {"Fp", "Fr"}}
         [] op_name = "affine_add" ->
              {[NoArgs EXCEPT !.P = P1, !.Q = P2] :
                 P1 \in DecafPoints, P2 \in DecafPoints}
         [] op_name = "assign" ->
              {[NoArgs EXCEPT !.P = P1, !.Q = P2, !.form = f] :
                 P1 \in DecafPoints, P2 \in DecafPoints,
                 f \in MixedAssignImpls}
         [] op_name = "serialise" ->
              {[NoArgs EXCEPT !.P = P1, !.form = f] :
                 P1 \in DecafPoints, f \in {"to_bits_le", "to_bytes"}}
         [] op_name = "check" ->
              {[NoArgs EXCEPT !.P = P1, !.form = f] :
                 P1 \in DecafPoints, f \in {"Element", "AffineElement"}}
  /\ op_out = NoOut
  /\ op_pc = "call"
  /\ op_stack = IF op_name = "assign" THEN <<op_args.form>> ELSE <<>>
  /\ lz_state = [c \in LazyCells |-> "uninit"]
  /\ lz_value = [c \in LazyCells |-> 0]
  /\ lz_inits = [c \in LazyCells |-> 0]
  /\ th_target = [t \in Threads |-> "none"]
  /\ th_stack = [t \in Threads |-> <<>>]
  /\ th_seen = [t \in Threads |-> {}]
  /\ th_reads = [t \in Threads |-> 0]

SpecApi == InitApi /\ [][NextApi]_vars

SpecSqrt == InitSqrt /\ [][NextSqrt]_vars

SpecInverse == InitInverse /\ [][NextInverse]_vars

SpecCircuit == InitCircuit /\ [][NextCircuit]_vars

Init ==
  InitSqrt \/ InitInverse \/ InitCircuit \/ InitOps \/ InitLazy \/ InitApi

Next ==
  NextSqrt \/ NextInverse \/ NextCircuit \/ NextOps \/ NextLazy \/ NextApi

Spec == Init /\ [][Next]_vars

----------------------------------------------------------------------------
(* Claims about sqrt_ratio_zeta, checked under SpecSqrt *)

SqReturned == sq_pc = "done" /\ ~sq_out.panic

\* The law r^2 * v = u (was_square) or r^2 * v = ZETA * u (not was_square).
SqLaw ==
  FqMul(FqSquare(sq_out.r), sq_v)
    = IF sq_out.was_square THEN sq_u ELSE FqMul(ZETA, sq_u)

\* C1: with (w, r) = sqrt_ratio_zeta(u, v): if u = 0 then w is true and
\* r = 0 (also when v = 0); else if v = 0 then w is false and r = 0; else
\* r*r*v = u when w is true and r*r*v = ZETA*u when w is false.
C1_SqrtRatioLaw ==
  SqReturned =>
    IF sq_u = 0 THEN sq_out.was_square /\ sq_out.r = 0
    ELSE IF sq_v = 0 THEN ~sq_out.was_square /\ sq_out.r = 0
    ELSE SqLaw

\* A call with u and v nonzero has returned from the non-square branch.
C1_Witness ==
  SqReturned /\ sq_u # 0 /\ sq_v # 0 /\ ~sq_out.was_square /\ sq_out.r # 0

\* C2 as stated: for every pair (u, v) the returned r satisfies r*r*v = u
\* when was_square is true and r*r*v = ZETA*u when it is false.
C2_LawForEveryPair == SqReturned => SqLaw

\* C2, amended: the law holds for every pair with v # 0 or u = 0; for u # 0
\* and v = 0 the call returns (false, 0), which does not satisfy it.
C2_LawUnlessZeroDenominator ==
  SqReturned =>
    IF sq_v # 0 \/ sq_u = 0 THEN SqLaw
    ELSE sq_out = Returned(FALSE, 0) /\ ~SqLaw

\* A call with u and v nonzero has returned from the square branch.
C2_Witness ==
  SqReturned /\ sq_u # 0 /\ sq_v # 0 /\ sq_out.was_square /\ sq_out.r # 0

\* C3: sqrt_ratio_zeta is total: it returns for every u, v and never
\* panics; whenever u and v are nonzero and u/v is not a square, ZETA*u/v is
\* a square, so neither expect() can fail.
C3_SqrtRatioTotal ==
  /\ sq_pc = "done" => ~sq_out.panic
  /\ sq_pc = "call" => sqrt_ratio_zeta(sq_u, sq_v) # {}
  /\ (sq_u # 0 /\ sq_v # 0) =>
       /\ FqInverse(sq_v).some
       /\ FqSqrt(FqMul(FqInverse(sq_v).val, sq_u)) = {} =>
            FqSqrt(FqMul(ZETA, FqMul(FqInverse(sq_v).val, sq_u))) # {}

\* A call whose ratio u/v is not a square has returned.
C3_Witness ==
  /\ sq_pc = "done"
  /\ sq_u # 0
  /\ sq_v # 0
  /\ FqSqrt(FqMul(InvMod(sq_v, Q), sq_u)) = {}
  /\ ~sq_out.panic

----------------------------------------------------------------------------
(* Claims about inverse, checked under SpecInverse *)

InvField == Field(inv_field)

\* C4: for both wrappers, inverse(x) returns None if and only if x is the
\* zero element; for every nonzero x it returns Some value, never a silent
\* zero, and the call always runs to its return.
C4_InverseNoneIffZero ==
  /\ inv_pc = "done" =>
       /\ ~inv_result.some <=> inv_self = zero(InvField)
       /\ inv_result.some => inv_result.val # zero(InvField)
  /\ inv_pc \in {"call", "loop"} => ENABLED NextInverse

\* inverse(0) has returned None, in Fp.
C4_Witness ==
  inv_pc = "done" /\ inv_field = "Fp" /\ inv_self = 0 /\ ~inv_result.some

\* C5: for every nonzero x of Fp and of Fr, the value y returned by
\* inverse(x) satisfies x.mul(y) = ONE.
C5_InverseIsInverse ==
  inv_pc = "done" /\ inv_result.some =>
    mul(InvField, inv_self, inv_result.val) = one(InvField)

\* inverse has returned for a nonzero x after a run that ended with f
\* negative, so that the candidate was negated.
C5_Witness ==
  /\ inv_pc = "done"
  /\ inv_result.some
  /\ inv_self # 0
  /\ inv_loc.f < 0

FieldBits == IF inv_field = "Fp" THEN Fp_B ELSE Fr_B

\* C6 as stated: the number of divstep rounds on a nonzero input is
\* ceil((49 * B + 57) / 17).
C6_RoundsAreCeiling ==
  inv_pc = "done" /\ inv_result.some =>
    inv_rounds = (49 * FieldBits + 57 + 16) \div 17

\* C6, amended: the number of divstep rounds on a nonzero input is
\* I = floor((49 * B + 57) / 17), the code's integer division (1090 for Fp,
\* 726 for Fr): the paired loop runs I - (I mod 2) rounds and one extra
\* round is run iff I is odd.
C6_RoundsAreFloor ==
  inv_pc = "done" /\ inv_result.some =>
    LET floorI == (49 * FieldBits + 57) \div 17
    IN /\ inv_rounds = floorI
       /\ inv_loc.i = floorI - (floorI % 2)
       /\ inv_rounds - inv_loc.i = floorI % 2

\* inverse has returned in Fr after its rounds.
C6_Witness ==
  inv_pc = "done" /\ inv_result.some /\ inv_field = "Fr" /\ inv_rounds > 0

----------------------------------------------------------------------------
(* Claims about the compression gadgets, checked under SpecCircuit *)

\* C7: encode-decode round trip: for every valid Decaf element P, the
\* identity included, decompress_from_field(compress_to_field(P)) leaves the
\* constraints satisfied and yields a point equal to P under Decaf equality.
C7_EncodeDecodeRoundTrip ==
  (/\ cs_ops = <<"compress", "decompress">>
   /\ cs_input.kind = "point"
   /\ cs_input.point \in DecafPoints)
  => cs_sat /\ is_eq(cs_point.val, cs_input.point)

\* The identity has been compressed and decompressed again.
C7_Witness ==
  /\ cs_ops = <<"compress", "decompress">>
  /\ cs_input.kind = "point"
  /\ cs_input.point = Identity
  /\ cs_s.val = 0
  /\ cs_sat

\* C8: decode-encode round trip: for every field element s that
\* decompress_from_field accepts, compress_to_field(decompress_from_field(s))
\* is s.
C8_DecodeEncodeRoundTrip ==
  (/\ cs_ops = <<"decompress", "compress">>
   /\ cs_input.kind = "field"
   /\ cs_sat)
  => cs_s.val = cs_input.s

\* A nonzero accepted s has been decompressed and compressed again.
C8_Witness ==
  /\ cs_ops = <<"decompress", "compress">>
  /\ cs_input.kind = "field"
  /\ cs_input.s # 0
  /\ cs_sat

\* C9: canonical sign: the field element returned by compress_to_field is
\* non-negative: the least-significant bit of its canonical representative
\* is 0.
C9_CompressNonNegative ==
  (Len(cs_ops) > 0 /\ cs_ops[Len(cs_ops)] = "compress") => cs_s.val % 2 = 0

\* A point has been compressed to a nonzero field element.
C9_Witness ==
  /\ cs_ops = <<"compress">>
  /\ cs_input.point \in DecafPoints
  /\ cs_s.val # 0

\* u_2 * u_1^2 of the claim, u_1 = 1 - s^2 and u_2 = u_1^2 - 4 d s^2.
C10_Den(x) ==
  LET u1 == FqSub(1, FqSquare(x))
      u2 == FqSub(FqSquare(u1), FqMul(FqMul(4 % Q, COEFF_D), FqSquare(x)))
  IN FqMul(u2, FqSquare(u1))

\* C10: decompress_from_field makes the constraints unsatisfied for every
\* negative s and for every s for which 1 / (u_2 * u_1^2) is not a square,
\* and leaves them satisfied for every other s.
C10_DecompressRejects ==
  cs_ops = <<"decompress">> =>
    (cs_sat <=>
       /\ cs_input.s % 2 = 0
       /\ \E y \in Fq : FqMul(FqSquare(y), C10_Den(cs_input.s)) = 1)

\* A non-negative s has been rejected: its square root does not exist.
C10_Witness ==
  /\ cs_ops = <<"decompress">>
  /\ cs_input.s % 2 = 0
  /\ ~cs_sat

\* C11: identity scenario: compress_to_field of the identity (0, 1) meets a
\* zero denominator, for which sqrt_ratio_zeta returns (false, 0), and
\* yields s = 0; decompress_from_field of s = 0 is accepted and yields a
\* point equal to the identity under Decaf equality.
C11_IdentityScenario ==
  /\ (cs_input = PointInput(Identity) /\ Len(cs_ops) >= 1)
       => /\ cs_ops[1] = "compress"
          /\ sqrt_ratio_zeta(1, 0) = {Returned(FALSE, 0)}
          /\ cs_s = Some(0)
  /\ (cs_input = PointInput(Identity) /\ cs_ops = <<"compress", "decompress">>)
       => cs_sat /\ is_eq(cs_point.val, Identity)
  /\ (cs_input = FieldInput(0) /\ cs_ops = <<"decompress">>)
       => cs_sat /\ is_eq(cs_point.val, Identity)

\* s = 0 has been decompressed to a point with x = 0.
C11_Witness ==
  /\ cs_input = FieldInput(0)
  /\ cs_ops = <<"decompress">>
  /\ cs_sat
  /\ cs_point.val.x = 0

----------------------------------------------------------------------------
(* Claims about allocation, checked under SpecCircuit *)

\* new_variable has been called, in mode m, as the first call of the circuit.
Allocated(m) ==
  /\ cs_input.kind = "alloc"
  /\ cs_input.mode = m
  /\ Len(cs_ops) = 1

\* C12: witness allocation of a valid element: for every valid Decaf element
\* P, new_variable in Witness mode witnesses P and its encoding, decodes the
\* encoding in the circuit, constrains the decoded point to equal P, leaves
\* the constraint system satisfied, and returns a variable whose value is P
\* (as Elements are compared: X_1 * Y_2 = X_2 * Y_1).
C12_WitnessAllocationOfValid ==
  (Allocated("Witness") /\ cs_input.point \in DecafPoints)
  => /\ cs_ops = <<"alloc">>
     /\ cs_sat
     /\ cs_point.some
     /\ cs_point.val \in DecafPoints
     /\ is_eq(cs_point.val, cs_input.point)
     /\ cs_num.instance = NumEmpty.instance
     /\ cs_num.witness >= 3
     /\ cs_num.constraints >= 1

\* A valid element other than the identity has been allocated as a witness,
\* and the variable returned holds its other representative (-x, -y).
C12_Witness ==
  /\ Allocated("Witness")
  /\ cs_input.point \in DecafPoints
  /\ cs_input.point.x # 0
  /\ cs_sat
  /\ cs_point.val = Pt(FqNeg(cs_input.point.x), FqNeg(cs_input.point.y))

\* C13: witness-allocation soundness: allocating in Witness mode any point
\* outside the Decaf image, on the curve or not, leaves the constraint system
\* unsatisfied.
C13_WitnessAllocationSound ==
  (Allocated("Witness") /\ cs_input.point \notin DecafPoints)
  => cs_ops = <<"alloc">> /\ ~cs_sat

\* A point of the curve outside the Decaf image has been allocated.
C13_Witness ==
  /\ Allocated("Witness")
  /\ cs_input.point \in CurvePoints \ DecafPoints
  /\ cs_ops = <<"alloc">>
  /\ ~cs_sat

\* (x, y + 1) for a valid P = (x, y)
Tampered(T) == \E P \in DecafPoints : T = Pt(P.x, FqAdd(P.y, 1))

\* C14: tampered witness: for every valid P = (x, y), witness allocation of
\* (x, y + 1) leaves the constraint system unsatisfied.
C14_TamperedUnsatisfied ==
  (Allocated("Witness") /\ Tampered(cs_input.point))
  => cs_ops = <<"alloc">> /\ ~cs_sat

\* The identity with y replaced by y + 1, (0, 2), has been allocated: its
\* encoding 0 is decoded to a point with x = 0, equal to (0, 2) under
\* X_1 * Y_2 = X_2 * Y_1, and only the curve equation is unsatisfied.
C14_Witness ==
  /\ Allocated("Witness")
  /\ cs_input.point = Pt(Identity.x, FqAdd(Identity.y, 1))
  /\ cs_ops = <<"alloc">>
  /\ is_eq(cs_point.val, cs_input.point)
  /\ ~cs_sat

\* C15: allocation in Constant mode adds no instance variable, no witness
\* variable and no constraint, and the variable returned holds the given
\* element.
C15_ConstantAddsNothing ==
  Allocated("Constant")
  => /\ cs_ops = <<"alloc">>
     /\ cs_num = NumEmpty
     /\ cs_sat
     /\ cs_point = Some(cs_input.point)

\* A valid element other than the identity has been allocated as a constant.
C15_Witness ==
  /\ Allocated("Constant")
  /\ cs_input.point \in DecafPoints
  /\ cs_input.point.x # 0
  /\ cs_point.some

\* C16 as stated: allocation in Input mode succeeds, adds instance variables
\* and returns a variable.
C16_InputExposesElement ==
  Allocated("Input")
  => /\ cs_ops = <<"alloc">>
     /\ cs_num.instance > NumEmpty.instance
     /\ cs_point.some

----------------------------------------------------------------------------
(* Claims about is_eq, elligator_map and scalar multiplication, checked     *)
(* under SpecOps                                                            *)

OpDone(name) == op_name = name /\ op_pc = "done"

\* C17: is_eq(P, Q) is true if and only if x_P * y_Q = x_Q * y_P on the
\* affine coordinates; so it is true for the two representatives (x, y) and
\* (-x, -y) of one Decaf coset, and it is not the comparison of the
\* coordinates one by one.
C17_IsEqIsDecafEquality ==
  OpDone("is_eq")
  => /\ op_out.eq <=> (op_args.P.x * op_args.Q.y) % Q
                        = (op_args.Q.x * op_args.P.y) % Q
     /\ (/\ op_args.Q.x = (Q - op_args.P.x) % Q
         /\ op_args.Q.y = (Q - op_args.P.y) % Q) => op_out.eq

\* is_eq has returned true for (x, y) and (-x, -y), two different pairs.
C17_Witness ==
  /\ OpDone("is_eq")
  /\ op_args.P.x # 0
  /\ op_args.Q = Pt(FqNeg(op_args.P.x), FqNeg(op_args.P.y))
  /\ op_args.Q # op_args.P
  /\ op_out.eq

\* C18: Elligator is total and always yields a valid point: for every r_0
\* in Fq, elligator_map(r_0) completes without a failed inversion (neither
\* 1 + a s^2 nor t is zero) and its output satisfies
\* a x^2 + y^2 = 1 + d x^2 y^2.
C18_ElligatorTotalAndOnCurve ==
  OpDone("elligator_map")
  => /\ ~op_out.panic
     /\ op_out.sat
     /\ FqAdd(1, FqMul(COEFF_A, FqSquare(op_out.s))) # 0
     /\ OnCurve(op_out.point)

\* elligator_map has returned a point other than the identity's coset.
C18_Witness ==
  /\ OpDone("elligator_map")
  /\ op_args.x # 0
  /\ op_out.sat
  /\ op_out.point.x # 0

\* C19 as stated: for every r_0, after the conditional negation s is
\* non-negative if and only if iss is true.
C19_SignIffSquare ==
  OpDone("elligator_map") => (is_nonnegative(op_out.s) <=> op_out.iss)

\* C19, amended: for every r_0 # 0, after the conditional negation s is
\* non-negative if and only if iss is true; for r_0 = 0, iss is false and
\* s = 0, which is non-negative.
C19_SignIffSquareUnlessZero ==
  OpDone("elligator_map")
  => IF op_args.x = 0
     THEN ~op_out.iss /\ op_out.s = 0 /\ is_nonnegative(op_out.s)
     ELSE is_nonnegative(op_out.s) <=> op_out.iss

\* elligator_map has met a non-square for a nonzero r_0 and left s negative.
C19_Witness ==
  /\ OpDone("elligator_map")
  /\ op_args.x # 0
  /\ ~op_out.iss
  /\ is_negative(op_out.s)

\* C20: scalar multiplication distributes over scalar addition: for every
\* Element P and all k, k' in Fr, k P + k' P = (k + k') P under Decaf
\* equality, in every operand form.
C20_ScalarMulDistributes ==
  OpDone("mul") => is_eq(op_out.point, op_out.other)

\* k + k' has wrapped around the order of the group, and the two sides are
\* different representatives of one coset.
C20_Witness ==
  /\ OpDone("mul")
  /\ op_args.form = "fr_element"
  /\ op_args.k1 + op_args.k2 >= Params.r
  /\ op_out.point # op_out.other
  /\ is_eq(op_out.point, op_out.other)

----------------------------------------------------------------------------
(* Claims about the lazily initialised constants, checked under SpecLazy *)

\* C21: each lazily initialised constant is initialised at most once: under
\* any interleaving of threads making the first read concurrently, every
\* reader observes the same, fully initialised value, and a cell that holds
\* its value holds that value in every later state.
C21_LazyInitialisedOnce ==
  /\ \A c \in LazyCells :
       /\ lz_inits[c] <= 1
       /\ lz_state[c] = "done" => lz_value[c] = LazyValue(c)
       /\ lz_state[c] = "done" => lz_inits[c] = 1
  /\ \A t \in Threads : \A obs \in th_seen[t] : obs[2] = LazyValue(obs[1])

\* Both threads have read G, one of them after waiting for the other's
\* initialiser, which also initialised M.
C21_Witness ==
  /\ \A t \in Threads : <<"G", LazyValue("G")>> \in th_seen[t]
  /\ \A t \in Threads : th_reads[t] = 1
  /\ lz_inits["G"] = 1
  /\ lz_inits["M"] = 1

----------------------------------------------------------------------------
(* Claims about the Rust API of the fields and of the group, checked under  *)
(* SpecApi                                                                  *)

\* C22: field byte/limb round trip: for every element x of Fp,
\* from_bytes(x.to_bytes_le()) = x with a 48-byte little-endian encoding, and
\* for every x of Fr, from_raw_bytes(x.to_bytes_le()) = x with a 32-byte
\* encoding; likewise from_le_limbs(x.to_le_limbs()) = x; the bytes and the
\* limbs are those of the canonical representative, which is below the
\* modulus.
C22_FieldCodecRoundTrip ==
  (OpDone("bytes") \/ OpDone("limbs"))
  => LET F == Field(op_args.form)
         canonical == (op_args.x * InvMod(MontR(F), F.m)) % F.m
         bits == IF op_name = "bytes" THEN 8 ELSE 64
     IN /\ op_out.s = op_args.x
        /\ Len(op_out.enc) =
             IF op_name = "limbs" THEN F.N
             ELSE IF op_args.form = "Fp" THEN 48 ELSE 32
        /\ \A i \in 1 .. Len(op_out.enc) :
             op_out.enc[i] >= 0 /\ ShiftRight(op_out.enc[i], bits) = 0
        /\ from_le_digits(op_out.enc, bits) = canonical
        /\ canonical < F.m

\* An element of Fp whose Montgomery form differs from its canonical
\* representative has been encoded to bytes and decoded again.
C22_Witness ==
  /\ OpDone("bytes")
  /\ op_args.form = "Fp"
  /\ op_args.x # 0
  /\ op_out.enc[1] # op_args.x
  /\ op_out.s = op_args.x

\* C23: in Fp::inverse the selector s passed to fp_selectznz is the sign of
\* the final divstep value f: s = 1 if and only if f is negative, which is
\* bit 63 of the most significant 64-bit limb of f; so the candidate v is
\* replaced by -v exactly when f is negative, the selection Fr::inverse
\* makes with its shift by 64 - 1. (The magnitude of f stays within the
\* modulus, so the limb read is the sign extension of f.)
C23_FpSelectorIsSignOfF ==
  (inv_pc = "done" /\ inv_result.some /\ inv_field = "Fp")
  => LET s == TopLimbBit(FpField, inv_loc.f, Fp_sign_shift)
     IN /\ s = 1 <=> inv_loc.f < 0
        /\ -FpField.m <= inv_loc.f /\ inv_loc.f <= FpField.m
        /\ s = TopLimbBit(FpField, inv_loc.f, 63)
        /\ s = TopLimbBit(FpField, inv_loc.f, Fr_sign_shift)
        /\ inverse_select(FpField, inv_loc)
             = IF inv_loc.f < 0 THEN fiat_opp(FpField, inv_loc.v)
               ELSE inv_loc.v
        /\ inv_result.val
             = fiat_mul(FpField,
                        IF inv_loc.f < 0 THEN fiat_opp(FpField, inv_loc.v)
                        ELSE inv_loc.v,
                        fiat_divstep_precomp(FpField))

\* Fp::inverse has returned after a run that ended with f negative and a
\* nonzero candidate, which was negated.
C23_Witness ==
  /\ inv_pc = "done"
  /\ inv_result.some
  /\ inv_field = "Fp"
  /\ inv_loc.f < 0
  /\ inv_loc.v # 0
  /\ TopLimbBit(FpField, inv_loc.f, Fp_sign_shift) = 1

\* C24: for all AffineElements A and B, A + B (Add<AffineElement> for
\* AffineElement) is the group sum of A and B: it equals
\* Element::from(A) + Element::from(B) and depends on both operands (it is
\* not B + B), although self_element is computed from other.
C24_AffineAddIsGroupSum ==
  OpDone("affine_add")
  => /\ op_out.point
          = element_add(into_element(op_args.P), into_element(op_args.Q))
     /\ into_affine(op_out.point) = ed_add(op_args.P, op_args.Q)
     /\ op_args.P # op_args.Q
          => into_affine(op_out.point) # ed_add(op_args.Q, op_args.Q)

\* Two different AffineElements, neither the identity, have been added and
\* the sum is not B + B.
C24_Witness ==
  /\ OpDone("affine_add")
  /\ op_args.P # op_args.Q
  /\ op_args.P.x # 0
  /\ op_args.Q.x # 0
  /\ op_out.point.Z # 1
  /\ into_affine(op_out.point) = ed_add(op_args.P, op_args.Q)
  /\ into_affine(op_out.point) # ed_add(op_args.Q, op_args.Q)

\* C25 as stated: the mixed compound assignments terminate: for every
\* Element P and AffineElement A, `P += &A`, `P += A` and `P -= &A` each
\* return after finitely many calls (no impl re-invokes itself with the same
\* operand types) and leave P equal to the old P plus (respectively minus)
\* Element::from(A), as `P -= A` does.
C25_MixedAssignTerminates ==
  op_name = "assign"
  => /\ \A i, j \in 1 .. Len(op_stack) : i # j => op_stack[i] # op_stack[j]
     /\ op_pc \in {"call", "done"}
     /\ op_pc = "done"
          => /\ ~op_out.panic
             /\ op_out.point
                  = IF op_args.form \in {"AddAssign<&AffineElement>",
                                         "AddAssign<AffineElement>"}
                    THEN element_add(into_element(op_args.P),
                                     into_element(op_args.Q))
                    ELSE element_sub(into_element(op_args.P),
                                     into_element(op_args.Q))

\* C27 as stated: ElementVar::to_bits_le and ElementVar::to_bytes return the
\* bits or bytes of the canonical compressed encoding compress_to_field(self),
\* as the older gadget's to_bits_le and to_bytes do, so two ElementVars equal
\* under is_eq, such as (x, y) and (-x, -y), serialise to identical output.
C27_SerialisesCompressedEncoding ==
  OpDone("serialise")
  => /\ op_out.enc \in Decaf377ElementVar_serialise(op_args.form, op_args.P)
     /\ \A P2 \in DecafPoints :
          is_eq(op_args.P, P2)
            => ElementVar_serialise(op_args.form, P2) = op_out.enc

\* C28 as stated: validity checking is total: for every Element and every
\* AffineElement, Valid::check returns a Result, Ok for a valid element, and
\* never panics or aborts.
C28_ValidCheckTotal ==
  OpDone("check") => ~op_out.panic /\ op_out.sat

----------------------------------------------------------------------------
(* A further claim about decompress_from_field, checked under SpecCircuit *)

\* 2 * s * u_1 of step 6, u_1 = 1 - s^2.
C26_TwoSU1(x) == FqMul(FqMul(FqAdd(1, 1), x), FqSub(1, FqSquare(x)))

\* The values v may have after step 6 for the encoding x.
C26_SignCheckedV(x) ==
  {decompress_sign_check(FqMul(C26_TwoSU1(x), o.r), o.r) :
     o \in isqrt(C10_Den(x))}

\* C26: every point (x, y) produced by decompress_from_field for an accepted
\* s satisfies the Element invariant: with Z = 1 and T = x * y,
\* a x^2 + y^2 = 1 + d x^2 y^2; and after the sign check of step 6 the
\* product 2 * s * u_1 * v is non-negative.
C26_DecompressedIsElement ==
  (Len(cs_ops) > 0 /\ cs_ops[Len(cs_ops)] = "decompress")
  => /\ cs_sat =>
          /\ OnCurve(cs_point.val)
          /\ FqAdd(FqMul(COEFF_A, FqSquare(cs_point.val.x)),
                   FqSquare(cs_point.val.y))
               = FqAdd(1, FqMul(COEFF_D,
                                FqSquare(FqMul(cs_point.val.x,
                                               cs_point.val.y))))
     /\ \A v \in C26_SignCheckedV(cs_s.val) :
          is_nonnegative(FqMul(C26_TwoSU1(cs_s.val), v))

\* An accepted nonzero s has been decompressed, and step 6 negated v.
C26_Witness ==
  /\ cs_ops = <<"decompress">>
  /\ cs_input.kind = "field"
  /\ cs_sat
  /\ cs_s.val # 0
  /\ cs_point.val.x # 0
  /\ \E o \in isqrt(C10_Den(cs_s.val)) :
       is_negative(FqMul(C26_TwoSU1(cs_s.val), o.r))

====
